---- MODULE Spec2Model ----
(***************************************************************************)
(* Model of src/components/Base64Decoder.tsx: the Base64Decoder component  *)
(* state (input, result, error, loading) and its decodeBase64 handler,     *)
(* an async function that suspends once, at the await of the dynamically   *)
(* imported decompression backend.                                         *)
(*                                                                         *)
(* A JavaScript string is modelled as a sequence of fragments: a text the  *)
(* code builds character by character (the input, the hex dump) is a       *)
(* sequence of one-character strings, a template literal is its literal    *)
(* parts followed by the interpolated fragments.  '' is << >>.             *)
(*                                                                         *)
(* JavaScript runs a handler to completion, so decodeBase64 is two atomic  *)
(* steps: Start, from the call to the await or to the return, and Resume,  *)
(* the continuation after the await.  The decompression backends are       *)
(* external packages: how their call ends is chosen by the environment.    *)
(*                                                                         *)
(* Spec, SpecText and FairSpec take decodeBase64 as its caller may invoke  *)
(* it, at any time and with any text.  SpecUI adds the guard of the Decode *)
(* button, which is disabled while loading or while the text is blank.     *)
(***************************************************************************)
EXTENDS Integers, Sequences, FiniteSets, TLC

\* ------------------------------------------------------------------ bounds
\* Longest input text of the specification that enumerates every text.
MaxTextLen == 3
\* Longest byte sequence handed to the hex formatter on its own.
MaxHexBytes == 2
\* Number of decodeBase64 invocations that may be in flight at once.
NProcs == 2

\* ------------------------------------------------------- string primitives
\* String.prototype.trim strips these from both ends; atob skips the same
\* characters wherever they occur.
WhiteSpace == {" ", "\t", "\n", "\f", "\r"}

RECURSIVE TrimStart(_)
TrimStart(s) ==
    IF s # << >> /\ Head(s) \in WhiteSpace THEN TrimStart(Tail(s)) ELSE s

RECURSIVE TrimEnd(_)
TrimEnd(s) ==
    IF s # << >> /\ s[Len(s)] \in WhiteSpace
    THEN TrimEnd(SubSeq(s, 1, Len(s) - 1)) ELSE s

\* input.trim()
Trim(s) == TrimEnd(TrimStart(s))

\* Number.prototype.toString(16) on a byte: lowercase, no padding.
HexDigitsLower ==
    <<"0", "1", "2", "3", "4", "5", "6", "7",
      "8", "9", "a", "b", "c", "d", "e", "f">>

toString16(n) ==
    IF n < 16 THEN <<HexDigitsLower[n + 1]>>
    ELSE <<HexDigitsLower[(n \div 16) + 1], HexDigitsLower[(n % 16) + 1]>>

\* String.prototype.padStart(n, c)
padStart(s, n, c) ==
    IF Len(s) >= n THEN s
    ELSE [i \in 1..n |-> IF i <= n - Len(s) THEN c ELSE s[i - (n - Len(s))]]

LowerLetters ==
    <<"a", "b", "c", "d", "e", "f", "g", "h", "i", "j", "k", "l", "m",
      "n", "o", "p", "q", "r", "s", "t", "u", "v", "w", "x", "y", "z">>
UpperLetters ==
    <<"A", "B", "C", "D", "E", "F", "G", "H", "I", "J", "K", "L", "M",
      "N", "O", "P", "Q", "R", "S", "T", "U", "V", "W", "X", "Y", "Z">>

\* The uppercase of each lowercase letter; any other character is its own.
UpperOf ==
    [c \in {LowerLetters[i] : i \in 1..26} |->
        UpperLetters[CHOOSE i \in 1..26 : LowerLetters[i] = c]]

UpperChar(c) == IF c \in DOMAIN UpperOf THEN UpperOf[c] ELSE c

\* String.prototype.toUpperCase
toUpperCase(s) == [i \in 1..Len(s) |-> UpperChar(s[i])]

\* Array.prototype.join
RECURSIVE join(_, _)
join(parts, sep) ==
    IF parts = << >> THEN << >>
    ELSE IF Len(parts) = 1 THEN parts[1]
    ELSE parts[1] \o sep \o join(Tail(parts), sep)

\* bytes.slice(1)
sliceKeepMarker(bytes) == bytes

slice1(bytes) == SubSeq(bytes, 2, Len(bytes))

\* ------------------------------------------------------------- bytesToHex
bytesToHexNoPad(bytes) ==
    toUpperCase(join([i \in 1..Len(bytes) |-> toString16(bytes[i])], <<" ">>))

bytesToHex(bytes) ==
    toUpperCase(
        join([i \in 1..Len(bytes) |-> padStart(toString16(bytes[i]), 2, "0")],
             <<" ">>))

\* ------------------------------------------------------------------- atob
\* window.atob: the forgiving-base64 decode of the platform.
B64Alphabet ==
    <<"A", "B", "C", "D", "E", "F", "G", "H", "I", "J", "K", "L", "M",
      "N", "O", "P", "Q", "R", "S", "T", "U", "V", "W", "X", "Y", "Z",
      "a", "b", "c", "d", "e", "f", "g", "h", "i", "j", "k", "l", "m",
      "n", "o", "p", "q", "r", "s", "t", "u", "v", "w", "x", "y", "z",
      "0", "1", "2", "3", "4", "5", "6", "7", "8", "9", "+", "/">>

IsB64Char(c) == \E i \in 1..64 : B64Alphabet[i] = c
B64Val(c) == (CHOOSE i \in 1..64 : B64Alphabet[i] = c) - 1

RECURSIVE RemoveWhiteSpace(_)
RemoveWhiteSpace(s) ==
    IF s = << >> THEN << >>
    ELSE IF Head(s) \in WhiteSpace THEN RemoveWhiteSpace(Tail(s))
    ELSE <<Head(s)>> \o RemoveWhiteSpace(Tail(s))

\* Length divisible by 4: drop one or two trailing "=".
StripPadding(s) ==
    IF Len(s) % 4 = 0 /\ Len(s) > 0 /\ s[Len(s)] = "="
    THEN IF s[Len(s) - 1] = "="
         THEN SubSeq(s, 1, Len(s) - 2)
         ELSE SubSeq(s, 1, Len(s) - 1)
    ELSE s

\* Sextets to octets; the bits left over by a final group of 2 or 3
\* characters are discarded.
RECURSIVE DecodeSextets(_)
DecodeSextets(v) ==
    IF Len(v) < 2 THEN << >>
    ELSE IF Len(v) = 2 THEN <<v[1] * 4 + (v[2] \div 16)>>
    ELSE IF Len(v) = 3
         THEN <<v[1] * 4 + (v[2] \div 16), (v[2] % 16) * 16 + (v[3] \div 4)>>
    ELSE <<v[1] * 4 + (v[2] \div 16),
           (v[2] % 16) * 16 + (v[3] \div 4),
           (v[3] % 4) * 64 + v[4]>> \o DecodeSextets(SubSeq(v, 5, Len(v)))

\* [ok |-> TRUE, bytes |-> ...] or, where atob throws, ok |-> FALSE.
atob(text) ==
    LET data == StripPadding(RemoveWhiteSpace(text)) IN
    IF Len(data) % 4 = 1 \/ \E i \in 1..Len(data) : ~IsB64Char(data[i])
    THEN [ok |-> FALSE, bytes |-> << >>]
    ELSE [ok |-> TRUE,
          bytes |-> DecodeSextets([i \in 1..Len(data) |-> B64Val(data[i])])]

\* ------------------------------------------------------------ input domains
\* Characters of the enumerated texts: base64 digits that reach the markers
\* 0x00 ("AA"), 0x01 ("AQ"), 0x02 ("Ag"), 0x0C ("DA") and 0xFF ("//"),
\* whitespace, the padding character and a character outside the alphabet.
TextChars == {"A", "Q", "g", "D", "/", " ", "=", "!"}

SeqsUpTo(S, n) == UNION {[1..k -> S] : k \in 0..n}

\* Every text of at most MaxTextLen characters.
Texts == SeqsUpTo(TextChars, MaxTextLen)

\* Texts typed into the field by the specification that follows the
\* component through changing inputs and overlapping invocations.
SampleTexts ==
    { << >>,                    \* '' (initial)
      <<" ">>,                  \* whitespace only
      <<"!">>,                  \* not base64
      <<"A", "A", "A">>,        \* 00 00
      <<"A", "Q", "A">>,        \* 01 00
      <<" ", "A", "g", "D">>,   \* 02 03, with leading whitespace
      <<"D", "A", "Q">>,        \* 0C 04
      <<"/", "/">> }            \* FF

\* Byte values and sequences handed to the hex formatter on its own.
HexBytes == {0, 9, 10, 15, 16, 171, 255}
HexInputs == SeqsUpTo(HexBytes, MaxHexBytes)

\* What a backend may hand back for a payload.
BackendOutputs == { << >>, <<10>>, <<65, 66>> }

\* How the awaited backend call ends: the dynamic import rejects, the
\* imported function throws, or it returns bytes.
Outcomes ==
    { [kind |-> "rejected", out |-> << >>],
      [kind |-> "throws", out |-> << >>] }
    \cup { [kind |-> "returns", out |-> b] : b \in BackendOutputs }

Procs == 1..NProcs

\* ------------------------------------------------------------------ state
VARIABLES
    input,      \* useState('')                          line 23
    result,     \* useState(null): null or the record    lines 24-29
    error,      \* useState('')                          line 30
    loading,    \* useState(false)                       line 31
    pc,         \* per invocation: "idle" or "await" (suspended at line 80/92)
    frame,      \* per invocation: what the suspended call holds (the
                \*   `input` its closure captured and its locals)
    requested,  \* backend modules whose import() has been issued
    ready,      \* backend modules whose import() has resolved
    resultBy,   \* history: invocation that wrote `result` (0: none, -1: an
                \*          earlier invocation of a slot since reused)
    errorBy,    \* history: invocation that wrote `error`
    overlapped, \* history: per invocation, did another one run while it
                \*          was in flight
    hexIn,      \* argument of the stand-alone bytesToHex call
    hexOut,     \* its return value
    hexDone     \* whether the call has been made

vars == <<input, result, error, loading, pc, frame, requested, ready,
          resultBy, errorBy, overlapped, hexIn, hexOut, hexDone>>

compVars == <<input, result, error, loading, pc, frame, requested, ready,
              resultBy, errorBy, overlapped>>
hexVars == <<hexIn, hexOut, hexDone>>

null == << >>

\* The frame of a slot with no suspended call.
NoFrame ==
    [input |-> << >>, compressionType |-> << >>, firstByte |-> 0,
     dataWithoutMarker |-> << >>]

\* ------------------------------------------------------- decodeBase64 parts
\* compressionType of the default branch.
UnknownLabelNoPad(firstByte) ==
    <<"Unknown (0x">> \o toUpperCase(toString16(firstByte)) \o <<")">>

UnknownLabel(firstByte) ==
    <<"Unknown (0x">>
    \o toUpperCase(padStart(toString16(firstByte), 2, "0"))
    \o <<")">>

\* compressionType chosen by the switch.
CompressionType(firstByte) ==
    CASE firstByte = 0 -> <<"Uncompressed (0x00)">>
      [] firstByte = 1 -> <<"NADA (0x01)">>
      [] firstByte = 2 -> <<"ZSTD (0x02)">>
      [] OTHER -> UnknownLabel(firstByte)

\* setError of the default branch.
UnknownError(firstByte) ==
    <<"Unknown compression marker: 0x">>
    \o toUpperCase(padStart(toString16(firstByte), 2, "0"))

\* Modules a dispatch on firstByte imports (loadNada / loadZstd).
ImportsEager(firstByte) == {"nada", "zstd"}

Imports(firstByte) ==
    CASE firstByte = 1 -> {"nada"}
      [] firstByte = 2 -> {"zstd"}
      [] OTHER -> {}

\* String(e) of what the inner try caught.
Thrown(o) ==
    IF o.kind = "rejected" THEN "Error: import failed"
    ELSE "Error: decompress failed"

\* setError of the inner catch blocks.
BackendErrorDropped(firstByte, o) == << >>

BackendError(firstByte, o) ==
    IF firstByte = 1
    THEN <<"NADA decompression error: ", Thrown(o)>>
    ELSE <<"ZSTD decompression error: ", Thrown(o)>>

\* decodedData after the inner try/catch.
DecodedDataRaw(o, dataWithoutMarker) == dataWithoutMarker

DecodedData(o, dataWithoutMarker) ==
    IF o.kind = "returns" THEN o.out ELSE dataWithoutMarker

\* The record passed to setResult.
MakeResultHexLen(compressionType, decodedData, text) ==
    [compressionType |-> compressionType,
     hexData |-> bytesToHex(decodedData),
     originalSize |-> Len(Trim(text)),
     decodedSize |-> Len(bytesToHex(decodedData))]

MakeResult(compressionType, decodedData, text) ==
    [compressionType |-> compressionType,
     hexData |-> bytesToHex(decodedData),
     originalSize |-> Len(Trim(text)),
     decodedSize |-> Len(decodedData)]

\* setLoading(false) of the finally block.
FinallySkipped == TRUE

Finally == FALSE

\* ------------------------------------------------------------------ actions
\* onChange of the text field (line 139).
SetInput(v) ==
    /\ input' = v
    /\ UNCHANGED <<result, error, loading, pc, frame, requested, ready,
                   resultBy, errorBy, overlapped, hexVars>>

Awaiting == {q \in Procs : pc[q] = "await"}

\* History bookkeeping when invocation p begins: it overlaps exactly the
\* invocations suspended at that moment.
OverlapOnStart(p) ==
    [q \in Procs |->
        IF q = p THEN Awaiting # {}
        ELSE IF q \in Awaiting THEN TRUE ELSE overlapped[q]]

WrittenBy(value, p) == IF value = << >> THEN 0 ELSE p

\* decodeBase64 from its call up to its first suspension or its return
\* (lines 40-119 without the continuations of lines 80 and 92).  The
\* invocation takes the lowest free slot.
Start(p) ==
    /\ pc[p] = "idle"
    /\ \A q \in Procs : q < p => pc[q] # "idle"
    /\ overlapped' = OverlapOnStart(p)
    /\ UNCHANGED <<input, ready, hexVars>>
    /\ IF Trim(input) = << >>
       THEN \* lines 41-44: return before the try
            /\ error' = <<"Please enter a base64 string">>
            /\ errorBy' = p
            /\ resultBy' = (IF resultBy = p THEN -1 ELSE resultBy)
            /\ UNCHANGED <<result, loading, pc, frame, requested>>
       ELSE \* lines 46-48, then the try
            LET dec == atob(Trim(input)) IN
            IF ~dec.ok
            THEN \* atob throws: catch (line 115), finally
                 /\ error' = <<"Decoding error: ", "InvalidCharacterError">>
                 /\ errorBy' = p
                 /\ result' = null
                 /\ resultBy' = 0
                 /\ loading' = Finally
                 /\ UNCHANGED <<pc, frame, requested>>
            ELSE IF Len(dec.bytes) = 0
            THEN \* lines 58-61, finally
                 /\ error' = <<"Invalid base64 data">>
                 /\ errorBy' = p
                 /\ result' = null
                 /\ resultBy' = 0
                 /\ loading' = Finally
                 /\ UNCHANGED <<pc, frame, requested>>
            ELSE LET firstByte == dec.bytes[1]
                     dataWithoutMarker == slice1(dec.bytes)
                 IN
                 /\ requested' = requested \cup Imports(firstByte)
                 /\ IF firstByte \in {1, 2}
                    THEN \* suspended at await loadNada() / loadZstd()
                         /\ error' = << >>
                         /\ errorBy' = 0
                         /\ result' = null
                         /\ resultBy' = 0
                         /\ loading' = TRUE
                         /\ pc' = [pc EXCEPT ![p] = "await"]
                         /\ frame' = [frame EXCEPT ![p] =
                                [input |-> input,
                                 compressionType |->
                                     CompressionType(firstByte),
                                 firstByte |-> firstByte,
                                 dataWithoutMarker |-> dataWithoutMarker]]
                    ELSE \* case 0x00 and default, setResult, finally
                         /\ error' = (IF firstByte = 0 THEN << >>
                                      ELSE UnknownError(firstByte))
                         /\ errorBy' = (IF firstByte = 0 THEN 0
                                        ELSE WrittenBy(UnknownError(firstByte),
                                                       p))
                         /\ result' = MakeResult(CompressionType(firstByte),
                                                 dataWithoutMarker, input)
                         /\ resultBy' = p
                         /\ loading' = Finally
                         /\ UNCHANGED <<pc, frame>>

\* The continuation of decodeBase64 after the await (lines 80-85 or 92-97,
\* then 107-118), run when the backend call has ended with outcome o.  An
\* import that has resolved once does not reject afterwards.
Resume(p, o) ==
    /\ pc[p] = "await"
    /\ pc' = [pc EXCEPT ![p] = "idle"]
    /\ frame' = [frame EXCEPT ![p] = NoFrame]
    /\ o.kind = "rejected" => Imports(frame[p].firstByte) \cap ready = {}
    /\ ready' = (IF o.kind = "rejected" THEN ready
                 ELSE ready \cup Imports(frame[p].firstByte))
    /\ error' = (IF o.kind = "returns" THEN error
                 ELSE BackendError(frame[p].firstByte, o))
    /\ errorBy' = (IF o.kind = "returns" THEN errorBy
                   ELSE WrittenBy(BackendError(frame[p].firstByte, o), p))
    /\ result' = MakeResult(frame[p].compressionType,
                            DecodedData(o, frame[p].dataWithoutMarker),
                            frame[p].input)
    /\ resultBy' = p
    /\ loading' = Finally
    /\ UNCHANGED <<input, requested, overlapped, hexVars>>

\* A call of bytesToHex on its own.
Format ==
    /\ ~hexDone
    /\ hexOut' = bytesToHex(hexIn)
    /\ hexDone' = TRUE
    /\ UNCHANGED <<hexIn, compVars>>

\* ----------------------------------------------------------- specifications
InitComponent ==
    /\ result = null
    /\ error = << >>
    /\ loading = FALSE
    /\ pc = [p \in Procs |-> "idle"]
    /\ frame = [p \in Procs |-> NoFrame]
    /\ requested = {}
    /\ ready = {}
    /\ resultBy = 0
    /\ errorBy = 0
    /\ overlapped = [p \in Procs |-> FALSE]

InitHexIdle ==
    /\ hexIn = << >>
    /\ hexOut = << >>
    /\ hexDone = FALSE

\* The component after construction; the caller types sample texts and
\* calls decodeBase64 at any time, also while an earlier call is suspended.
Init ==
    /\ input = << >>
    /\ InitComponent
    /\ InitHexIdle

Next ==
    \/ \E v \in SampleTexts : SetInput(v)
    \/ \E p \in Procs : Start(p)
    \/ \E p \in Procs : \E o \in Outcomes : Resume(p, o)

Spec == Init /\ [][Next]_vars

\* The same, with the backend calls eventually ending.
FairSpec ==
    Spec /\ \A p \in Procs : WF_vars(\E o \in Outcomes : Resume(p, o))

\* The component with any text of the enumerated domain in the field.
InitText ==
    /\ input \in Texts
    /\ InitComponent
    /\ InitHexIdle

NextText ==
    \/ \E p \in Procs : Start(p)
    \/ \E p \in Procs : \E o \in Outcomes : Resume(p, o)

SpecText == InitText /\ [][NextText]_vars

\* The Decode button is disabled while loading or on a blank text
\* (line 146); onClick calls decodeBase64 (line 145).
ButtonDisabled == loading \/ Trim(input) = << >>

Click(p) == ~ButtonDisabled /\ Start(p)

NextUI ==
    \/ \E v \in SampleTexts : SetInput(v)
    \/ \E p \in Procs : Click(p)
    \/ \E p \in Procs : \E o \in Outcomes : Resume(p, o)

\* The component driven through its own controls only.
SpecUI == Init /\ [][NextUI]_vars

\* bytesToHex applied to any byte sequence of the enumerated domain.
InitHex ==
    /\ input = << >>
    /\ InitComponent
    /\ hexIn \in HexInputs
    /\ hexOut = << >>
    /\ hexDone = FALSE

NextHex == Format

SpecHex == InitHex /\ [][NextHex]_vars

\* ------------------------------------------------- reading a hex dump back
UpperHexDigits ==
    <<"0", "1", "2", "3", "4", "5", "6", "7",
      "8", "9", "A", "B", "C", "D", "E", "F">>

IsUpperHex(c) == \E i \in 1..16 : UpperHexDigits[i] = c
HexVal(c) == (CHOOSE i \in 1..16 : UpperHexDigits[i] = c) - 1

\* The two uppercase digits of a byte.
TwoDigits(b) ==
    <<UpperHexDigits[(b \div 16) + 1], UpperHexDigits[(b % 16) + 1]>>

\* The bytes a dump denotes: groups of exactly two uppercase hex digits
\* separated by exactly one space.  Anything else reads as <<-1>>.
RECURSIVE ParseHex(_)
ParseHex(s) ==
    IF s = << >> THEN << >>
    ELSE IF Len(s) >= 2 /\ IsUpperHex(s[1]) /\ IsUpperHex(s[2])
         THEN LET b == HexVal(s[1]) * 16 + HexVal(s[2]) IN
              IF Len(s) = 2 THEN <<b>>
              ELSE IF Len(s) >= 5 /\ s[3] = " "
                   THEN LET rest == ParseHex(SubSeq(s, 4, Len(s))) IN
                        IF rest = <<-1>> THEN <<-1>> ELSE <<b>> \o rest
                   ELSE <<-1>>
         ELSE <<-1>>

\* The byte sequence a text decodes to (no bytes when it is not base64).
Decoded(text) == atob(text).bytes
IsBase64(text) == atob(text).ok

\* ------------------------------------------------------------------ claims

\* C1: a decode of a text whose bytes B are non-empty with B[0] = 0x00
\* leaves a result whose hexData renders exactly B[1:], labelled
\* "Uncompressed (0x00)", and no error.
C1_Uncompressed ==
    [][\A p \in Procs :
        (/\ Start(p)
         /\ IsBase64(input)
         /\ Decoded(input) # << >>
         /\ Decoded(input)[1] = 0)
        => /\ result' # null
           /\ ParseHex(result'.hexData) = Tail(Decoded(input))
           /\ result'.compressionType = <<"Uncompressed (0x00)">>
           /\ error' = << >>]_vars

C1_Witness ==
    /\ IsBase64(input)
    /\ Len(Decoded(input)) = 2
    /\ Decoded(input)[1] = 0
    /\ result # null
    /\ result.compressionType = <<"Uncompressed (0x00)">>
    /\ result.decodedSize = 1
    /\ error = << >>

\* C2: a decode of a text whose bytes B are non-empty with B[0] outside
\* {0x00, 0x01, 0x02} leaves both a result and an unknown-marker error: the
\* hexData renders exactly B[1:] and compressionType is "Unknown" with the
\* marker as exactly two uppercase hex digits.
C2_UnknownMarker ==
    [][\A p \in Procs :
        (/\ Start(p)
         /\ IsBase64(input)
         /\ Decoded(input) # << >>
         /\ Decoded(input)[1] \notin {0, 1, 2})
        => /\ result' # null
           /\ ParseHex(result'.hexData) = Tail(Decoded(input))
           /\ result'.compressionType =
                  <<"Unknown (0x">> \o TwoDigits(Decoded(input)[1]) \o <<")">>
           /\ error' = <<"Unknown compression marker: 0x">>
                       \o TwoDigits(Decoded(input)[1])]_vars

C2_Witness ==
    /\ IsBase64(input)
    /\ Decoded(input) = <<12, 4>>
    /\ result # null
    /\ result.compressionType = <<"Unknown (0x", "0", "C", ")">>
    /\ result.hexData = <<"0", "4">>
    /\ error = <<"Unknown compression marker: 0x", "0", "C">>

\* C3: when the backend call of a 0x01 or 0x02 decode fails (the import
\* rejects or the function throws), the continuation leaves a result whose
\* hexData renders the still-compressed B[1:] under the scheme's label,
\* together with the scheme's decompression error.
C3_BackendFailure ==
    [][\A p \in Procs : \A o \in Outcomes :
        (Resume(p, o) /\ o.kind # "returns")
        => LET B == Decoded(frame[p].input) IN
           /\ result' # null
           /\ ParseHex(result'.hexData) = Tail(B)
           /\ result'.compressionType =
                  (IF B[1] = 1 THEN <<"NADA (0x01)">> ELSE <<"ZSTD (0x02)">>)
           /\ Len(error') = 2
           /\ error'[1] = (IF B[1] = 1 THEN "NADA decompression error: "
                           ELSE "ZSTD decompression error: ")]_vars

C3_Witness ==
    /\ result # null
    /\ result.compressionType = <<"NADA (0x01)">>
    /\ result.hexData = <<"0", "0">>
    /\ error = <<"NADA decompression error: ", "Error: decompress failed">>
    /\ ~loading

C5_BackendSuccess ==
    [][\A p \in Procs : \A o \in Outcomes :
        (Resume(p, o) /\ o.kind = "returns")
        => LET B == Decoded(frame[p].input) IN
           /\ result' # null
           /\ ParseHex(result'.hexData) = o.out
           /\ result'.compressionType =
                  (IF B[1] = 1 THEN <<"NADA (0x01)">> ELSE <<"ZSTD (0x02)">>)
           /\ error' = error
           /\ errorBy' # p
           /\ ~overlapped[p] => error' = << >>]_vars

C5_Witness ==
    /\ result # null
    /\ result.compressionType = <<"ZSTD (0x02)">>
    /\ result.hexData = <<"4", "1", " ", "4", "2">>
    /\ error = << >>
    /\ "zstd" \in ready

\* C6: bytesToHex renders every byte as exactly two uppercase zero-padded
\* hex digits, bytes separated by one space, nothing before or after: n > 0
\* bytes give 3n-1 characters, no bytes give '', and reading the dump back
\* gives the bytes.
C6_HexFormat ==
    hexDone =>
        /\ Len(hexOut) = (IF hexIn = << >> THEN 0 ELSE 3 * Len(hexIn) - 1)
        /\ \A i \in 1..Len(hexIn) :
              /\ hexOut[3 * i - 2] = TwoDigits(hexIn[i])[1]
              /\ hexOut[3 * i - 1] = TwoDigits(hexIn[i])[2]
              /\ i < Len(hexIn) => hexOut[3 * i] = " "
        /\ ParseHex(hexOut) = hexIn

C6_Witness ==
    /\ hexDone
    /\ hexIn = <<10, 255>>
    /\ hexOut = <<"0", "A", " ", "F", "F">>

\* C7: whenever a result is present, its decodedSize is the number of
\* bytes its hexData renders.
C7_DecodedSize ==
    result # null =>
        LET b == ParseHex(result.hexData) IN
        /\ \A i \in 1..Len(b) : b[i] \in 0..255
        /\ result.decodedSize = Len(b)

C7_Witness ==
    /\ result # null
    /\ result.compressionType = <<"ZSTD (0x02)">>
    /\ error # << >>
    /\ Len(Decoded(input)) = 2
    /\ result.decodedSize = 1
    /\ result.hexData = bytesToHex(Tail(Decoded(input)))

\* C8: no backend is requested initially, and a step requests the NADA
\* (Zstd) backend only if it is a decode suspending on a text whose first
\* decoded byte is 0x01 (0x02).
C8_OnDemand ==
    /\ requested = {}
    /\ [][\A b \in {"nada", "zstd"} :
            (b \in requested' /\ b \notin requested)
            => \E p \in Procs :
                  /\ pc[p] = "idle"
                  /\ pc'[p] = "await"
                  /\ IsBase64(input)
                  /\ Decoded(input) # << >>
                  /\ Decoded(input)[1] = (IF b = "nada" THEN 1 ELSE 2)]_vars

C8_Witness ==
    /\ requested = {"zstd"}
    /\ result # null
    /\ result.compressionType = <<"Uncompressed (0x00)">>
    /\ \A p \in Procs : pc[p] = "idle"

\* C9: an invocation that starts processing finishes: a synchronous one in
\* the same step, a suspended one eventually; and the step that finishes it
\* leaves loading false and a result or an error.
C9_RunsToCompletion ==
    /\ [][\A p \in Procs :
            (\/ Start(p) /\ Trim(input) # << >> /\ pc'[p] = "idle"
             \/ pc[p] = "await" /\ pc'[p] = "idle")
            => /\ ~loading'
               /\ result' # null \/ error' # << >>]_vars
    /\ [][\A p \in Procs :
            (Start(p) /\ pc'[p] = "await") => loading']_vars
    /\ \A p \in Procs : (pc[p] = "await") ~> (pc[p] = "idle")

C9_Witness ==
    /\ \A p \in Procs : pc[p] = "idle"
    /\ ready # {}
    /\ result # null
    /\ ~loading

====
